---- MODULE Spec2Model ----
(***************************************************************************)
(* Model of the line-oriented TCP server of tb0hdan/simulator:             *)
(* pkg/server (Server, conn) with its Start / Shutdown coordination, the   *)
(* per-connection run loop and the shutdown-aware request dispatch.        *)
(*                                                                         *)
(* Time is counted in whole seconds, the unit of time.Now().Unix() that    *)
(* the packed connection state stores, on a scale that moves with the      *)
(* clock: the present second always reads Present, and when a second       *)
(* passes every stored stamp moves one second into the past.               *)
(***************************************************************************)
EXTENDS Integers, Sequences, FiniteSets, TLC

---------------------------------------------------------------------------
(* Bounds of the model *)

\* The reading of the clock at the present second; stamps range over
\* 1..Present, so that ages up to Present - 1 seconds are told apart.
Present == 7
\* The calls of Server.Start (each binds its own listener), the calls of
\* Server.Shutdown and the connections, numbered in the order in which the
\* environment makes the calls and opens the connections.
Starts == {1, 2}
Shutdowns == {1, 2}
Conns == {1, 2}

\* What the environment does in one run: how many calls of Start and of
\* Shutdown it makes, how many connections it opens and how many lines a
\* client sends on one connection.
Scenario(st, sh, cn, ln) == [starts |-> st, shutdowns |-> sh, conns |-> cn, lines |-> ln]
Scenarios == {Scenario(2, 1, 1, 1), Scenario(1, 2, 1, 1), Scenario(1, 1, 1, 2)}

\* Values of the gracePeriod argument of Start, in seconds (main.go uses 3 s).
GracePeriods == {3}

---------------------------------------------------------------------------
(* Program constants *)

StateNew == 0
StateIdle == 1
StateClosed == 2

\* closeIdleConns: "time.Now().Unix()-5"
StaleNewSecs == 5

amountThreshold == 100
amountLarge == 10000

ErrServerClosed == "ErrServerClosed"
BindError == "BindError"
NoError == "nil"

ResponseRejected == "RESPONSE|REJECTED|"
ResponseAccepted == "RESPONSE|ACCEPTED|"
ResponseTransactionProcessed == "RESPONSE|ACCEPTED|Transaction processed"
ResponseInvalidRequest == "RESPONSE|REJECTED|Invalid request"
ResponseInvalidAmount == "RESPONSE|REJECTED|Invalid amount"
ResponseCancelled == "RESPONSE|REJECTED|Cancelled"

---------------------------------------------------------------------------
(* Request lines and the request handler (a pure function of the line) *)

\* A line is a sequence of one-character strings.
PAYMENT == <<"P", "A", "Y", "M", "E", "N", "T">>
Digits == <<"0", "1", "2", "3", "4", "5", "6", "7", "8", "9">>

DigitVal(ch) == (CHOOSE i \in 1..10 : Digits[i] = ch) - 1
IsDigit(ch) == \E i \in 1..10 : Digits[i] = ch

\* strings.Split(request, "|"): the fields between the separators.
RECURSIVE SplitFrom(_, _, _)
SplitFrom(line, i, cur) ==
    IF i > Len(line) THEN <<cur>>
    ELSE IF line[i] = "|" THEN <<cur>> \o SplitFrom(line, i + 1, <<>>)
    ELSE SplitFrom(line, i + 1, Append(cur, line[i]))

Split(line) == SplitFrom(line, 1, <<>>)

\* strconv.Atoi: optional sign, then one or more decimal digits, the value
\* within the range of int (64 bits).
RECURSIVE DigitsValue(_, _)
DigitsValue(s, acc) ==
    IF s = <<>> THEN acc ELSE DigitsValue(Tail(s), acc * 10 + DigitVal(Head(s)))

AtoiBody(s) ==
    IF s # <<>> /\ Head(s) \in {"+", "-"} THEN Tail(s) ELSE s

\* The digits without their leading zeros.
RECURSIVE StripZeros(_)
StripZeros(s) ==
    IF s # <<>> /\ Head(s) = "0" THEN StripZeros(Tail(s)) ELSE s

\* The decimal digits of 2^63 - 1 and of 2^63, the largest magnitudes of a
\* positive and of a negative int.
MaxIntDigits == <<"9", "2", "2", "3", "3", "7", "2", "0", "3", "6", "8", "5", "4",
                  "7", "7", "5", "8", "0", "7">>
MinIntDigits == <<"9", "2", "2", "3", "3", "7", "2", "0", "3", "6", "8", "5", "4",
                  "7", "7", "5", "8", "0", "8">>

\* Whether the number written a is at most the number written b, both
\* without leading zeros.
RECURSIVE DigitsAtMost(_, _)
DigitsAtMost(a, b) ==
    IF Len(a) # Len(b) THEN Len(a) < Len(b)
    ELSE IF a = <<>> THEN TRUE
    ELSE IF Head(a) # Head(b) THEN DigitVal(Head(a)) < DigitVal(Head(b))
    ELSE DigitsAtMost(Tail(a), Tail(b))

\* The decimal digits of amountLarge.
amountLargeDigits == <<"1", "0", "0", "0", "0">>

\* The value of the digits s. Every use of the value compares it with 0,
\* amountThreshold or amountLarge, so the value is exact up to amountLarge,
\* and amountLarge + 1 stands for every larger one.
Magnitude(s) ==
    IF DigitsAtMost(StripZeros(s), amountLargeDigits)
    THEN DigitsValue(s, 0)
    ELSE amountLarge + 1

\* Whether strconv.Atoi returns no error: the syntax is right and the value
\* is in range.
AtoiOk(s) ==
    /\ AtoiBody(s) # <<>>
    /\ \A i \in 1..Len(AtoiBody(s)) : IsDigit(AtoiBody(s)[i])
    /\ DigitsAtMost(StripZeros(AtoiBody(s)),
                    IF Head(s) = "-" THEN MinIntDigits ELSE MaxIntDigits)

Atoi(s) ==
    IF s # <<>> /\ Head(s) = "-" THEN 0 - Magnitude(AtoiBody(s))
    ELSE Magnitude(AtoiBody(s))

\* A handler that also sleeps for an amount equal to the threshold.
processingTimeInclusive(line) ==
    LET parts == Split(line) IN
    IF Len(parts) # 2 \/ parts[1] # PAYMENT THEN 0
    ELSE IF ~AtoiOk(parts[2]) THEN 0
    ELSE IF Atoi(parts[2]) <= 0 THEN 0
    ELSE IF Atoi(parts[2]) >= amountThreshold
         THEN (IF Atoi(parts[2]) > amountLarge THEN amountLarge ELSE Atoi(parts[2]))
         ELSE 0

\* The time.Sleep of handleRequest, in milliseconds.
processingTime(line) ==
    LET parts == Split(line) IN
    IF Len(parts) # 2 \/ parts[1] # PAYMENT THEN 0
    ELSE IF ~AtoiOk(parts[2]) THEN 0
    ELSE IF Atoi(parts[2]) <= 0 THEN 0
    ELSE IF Atoi(parts[2]) > amountThreshold
         THEN (IF Atoi(parts[2]) > amountLarge THEN amountLarge ELSE Atoi(parts[2]))
         ELSE 0

\* The string handleRequest returns.
handleRequest(line) ==
    LET parts == Split(line) IN
    IF Len(parts) # 2 \/ parts[1] # PAYMENT THEN ResponseInvalidRequest
    ELSE IF ~AtoiOk(parts[2]) THEN ResponseInvalidAmount
    ELSE IF Atoi(parts[2]) <= 0 THEN ResponseInvalidAmount
    ELSE ResponseTransactionProcessed

\* Whole seconds of the clock a sleep of ms milliseconds spans.
SleepSecs(ms) == ms \div 1000

\* The request lines the modelled clients send.
Pay2000 == PAYMENT \o <<"|", "2", "0", "0", "0">>
Pay20000 == PAYMENT \o <<"|", "2", "0", "0", "0", "0">>
Invalid100 == <<"I", "N", "V", "A", "L", "I", "D", "|", "1", "0", "0">>
Lines == {Pay2000, Pay20000, Invalid100}

---------------------------------------------------------------------------
(* State *)

VARIABLES
    inShutdown,     \* Server.inShutdown
    gracePeriod,    \* Server.gracePeriod, seconds
    listeners,      \* Server.listeners: the Start calls whose listener is registered
    listenerGroup,  \* Server.listenerGroup: the WaitGroup counter
    activeConn,     \* Server.activeConn
    lnCloses,       \* per listener: number of Close calls made on it
    startPc,        \* per Start call: its position
    startRet,       \* per Start call: the error it returned
    startConn,      \* per Start call: the connection between trackConn and Store
    shutPc,         \* per Shutdown call: its position
    shutRet,        \* per Shutdown call: the error it returned
    lnerr,          \* per Shutdown call: the local lnerr
    ctxErr,         \* per Shutdown call: ctx.Err() (NoError while ctx is not done)
    drainBegun,     \* some Shutdown call has run closeIdleConns
    pollIntervalBase, \* per Shutdown call: the local pollIntervalBase, ns
    timerInterval,  \* per Shutdown call: the interval its poll timer was last armed with, ns
    connPc,         \* per connection: position of handleConnection
    curState,       \* per connection: conn.curState, the packed word
    rwcCloses,      \* per connection: number of rwc.Close calls
    inbuf,          \* per connection: lines sent by the client, not yet read
    sent,           \* per connection: number of lines the client has sent
    clientGone,     \* per connection: the client closed its end
    req,            \* per connection: the request being served
    abandoned,      \* per connection: handler goroutines left behind by a timeout
    delivered       \* per connection: the responses its client received

vars == <<inShutdown, gracePeriod, listeners, listenerGroup, activeConn,
          lnCloses, startPc, startRet, startConn, shutPc, shutRet, lnerr,
          ctxErr, drainBegun, pollIntervalBase, timerInterval, connPc,
          curState, rwcCloses, inbuf, sent, clientGone, req, abandoned,
          delivered>>

serverVars == <<inShutdown, gracePeriod, listeners, listenerGroup, activeConn>>
startVars == <<lnCloses, startPc, startRet, startConn>>
pollVars == <<pollIntervalBase, timerInterval>>
shutVars == <<shutPc, shutRet, lnerr, ctxErr, drainBegun, pollVars>>
connVars == <<connPc, curState, rwcCloses, req, abandoned, delivered>>
clientVars == <<inbuf, sent, clientGone>>

NoConn == 0
\* No request in service. sleep and timer count the seconds left of the
\* handler's time.Sleep and of the timeout context.
NoReq == [line |-> <<>>, flag |-> FALSE, sleep |-> 0, timer |-> 0]

---------------------------------------------------------------------------
(* The packed state cell *)

\* A packing that adds the state to the stamp without shifting the stamp.
packedStateUnshifted(unixSec, state) == unixSec + state

\* uint64(time.Now().Unix()<<8) | uint64(state)
packedState(unixSec, state) == unixSec * 256 + state

\* ConnState(packedState & 0xff), int64(packedState >> 8)
unpack(word) == [state |-> word % 256, unixSec |-> word \div 256]

\* conn.getState: one atomic load of the cell, unpacked.
getState(c) == unpack(curState[c])

shuttingDown == inShutdown

---------------------------------------------------------------------------
(* What the environment has done so far *)

StartsCalled == Cardinality({s \in Starts : startPc[s] # "init"})
ShutdownsCalled == Cardinality({h \in Shutdowns : shutPc[h] # "init"})
ConnsOpened == Cardinality({c \in Conns : connPc[c] # "unborn"})
LinesSent == CHOOSE n \in 0..Cardinality(Lines) * 4 :
                 /\ \E c \in Conns : sent[c] = n
                 /\ \A c \in Conns : sent[c] <= n

\* Whether a run with st calls of Start, sh calls of Shutdown, cn connections
\* and at most ln lines on a connection is a run of one of the scenarios.
Fits(scenarios, st, sh, cn, ln) ==
    \E sc \in scenarios :
        st <= sc.starts /\ sh <= sc.shutdowns /\ cn <= sc.conns /\ ln <= sc.lines

MayStart(scenarios, s) ==
    /\ \A t \in Starts : t < s => startPc[t] # "init"
    /\ Fits(scenarios, StartsCalled + 1, ShutdownsCalled, ConnsOpened, LinesSent)

MayShutdown(scenarios, h) ==
    /\ \A g \in Shutdowns : g < h => shutPc[g] # "init"
    /\ Fits(scenarios, StartsCalled, ShutdownsCalled + 1, ConnsOpened, LinesSent)

MayConnect(scenarios, c) ==
    /\ \A d \in Conns : d < c => connPc[d] # "unborn"
    /\ Fits(scenarios, StartsCalled, ShutdownsCalled, ConnsOpened + 1, LinesSent)

MaySend(scenarios, c) ==
    Fits(scenarios, StartsCalled, ShutdownsCalled, ConnsOpened,
         IF sent[c] + 1 > LinesSent THEN sent[c] + 1 ELSE LinesSent)

\* New(): no listener, no connection, the shutdown flag clear; no call made.
Init ==
    /\ inShutdown = FALSE
    /\ gracePeriod = 0
    /\ listeners = {}
    /\ listenerGroup = 0
    /\ activeConn = {}
    /\ lnCloses = [s \in Starts |-> 0]
    /\ startPc = [s \in Starts |-> "init"]
    /\ startRet = [s \in Starts |-> NoError]
    /\ startConn = [s \in Starts |-> NoConn]
    /\ shutPc = [h \in Shutdowns |-> "init"]
    /\ shutRet = [h \in Shutdowns |-> NoError]
    /\ lnerr = [h \in Shutdowns |-> NoError]
    /\ ctxErr = [h \in Shutdowns |-> NoError]
    /\ drainBegun = FALSE
    /\ pollIntervalBase = [h \in Shutdowns |-> 0]
    /\ timerInterval = [h \in Shutdowns |-> 0]
    /\ connPc = [c \in Conns |-> "unborn"]
    /\ curState = [c \in Conns |-> 0]
    /\ rwcCloses = [c \in Conns |-> 0]
    /\ inbuf = [c \in Conns |-> <<>>]
    /\ sent = [c \in Conns |-> 0]
    /\ clientGone = [c \in Conns |-> FALSE]
    /\ req = [c \in Conns |-> NoReq]
    /\ abandoned = [c \in Conns |-> <<>>]
    /\ delivered = [c \in Conns |-> <<>>]

\* time.Now().Unix(): the time scale moves with the clock, so that the present
\* second is always Present and stored stamps age.
now == Present

---------------------------------------------------------------------------
(* Server.Start: one listener per call *)

\* net.Listen and the assignment of s.gracePeriod; a bind failure returns at once.
StartListen(s) ==
    /\ startPc[s] = "init"
    /\ \E ok \in BOOLEAN, g \in GracePeriods :
         IF ok
         THEN /\ gracePeriod' = g
              /\ startPc' = [startPc EXCEPT ![s] = "track"]
              /\ UNCHANGED startRet
         ELSE /\ startRet' = [startRet EXCEPT ![s] = BindError]
              /\ startPc' = [startPc EXCEPT ![s] = "done"]
              /\ UNCHANGED gracePeriod
    /\ UNCHANGED <<inShutdown, listeners, listenerGroup, activeConn,
                   lnCloses, startConn>>
    /\ UNCHANGED <<shutVars, connVars, clientVars>>

\* A trackListener that registers without looking at the flag.
trackListenerAddsAlways == TRUE

\* trackListener(ln, true): whether the listener is registered.
trackListenerAdds == ~shuttingDown

\* trackListener(&listener, true) under s.mu; on false Start returns
\* ErrServerClosed and the deferred listener.Close() runs.
StartTrackListener(s) ==
    /\ startPc[s] = "track"
    /\ IF trackListenerAdds
       THEN /\ listeners' = listeners \cup {s}
            /\ listenerGroup' = listenerGroup + 1
            /\ startPc' = [startPc EXCEPT ![s] = "accept"]
            /\ UNCHANGED <<startRet, lnCloses>>
       ELSE /\ startRet' = [startRet EXCEPT ![s] = ErrServerClosed]
            /\ lnCloses' = [lnCloses EXCEPT ![s] = @ + 1]
            /\ startPc' = [startPc EXCEPT ![s] = "done"]
            /\ UNCHANGED <<listeners, listenerGroup>>
    /\ UNCHANGED <<inShutdown, gracePeriod, activeConn, startConn>>
    /\ UNCHANGED <<shutVars, connVars, clientVars>>

\* listener.Accept() returns a connection; newConn; setState(StateNew) up to
\* its trackConn(c, true).
StartAccept(s, c) ==
    /\ startPc[s] = "accept"
    /\ lnCloses[s] = 0
    /\ connPc[c] = "unborn"
    /\ activeConn' = activeConn \cup {c}
    /\ connPc' = [connPc EXCEPT ![c] = "new"]
    /\ startConn' = [startConn EXCEPT ![s] = c]
    /\ startPc' = [startPc EXCEPT ![s] = "setNew"]
    /\ UNCHANGED <<inShutdown, gracePeriod, listeners, listenerGroup,
                   lnCloses, startRet>>
    /\ UNCHANGED <<shutVars, curState, rwcCloses, req, abandoned,
                   delivered, clientVars>>

\* The rest of setState(StateNew): the store of the packed word; then
\* "go c.handleConnection()".
StartStoreNew(s) ==
    /\ startPc[s] = "setNew"
    /\ curState' = [curState EXCEPT ![startConn[s]] = packedState(now, StateNew)]
    /\ connPc' = [connPc EXCEPT ![startConn[s]] = "scan"]
    /\ startConn' = [startConn EXCEPT ![s] = NoConn]
    /\ startPc' = [startPc EXCEPT ![s] = "accept"]
    /\ UNCHANGED <<serverVars, lnCloses, startRet>>
    /\ UNCHANGED <<shutVars, rwcCloses, req, abandoned, delivered,
                   clientVars>>

\* listener.Accept() returns an error: the listener was closed, or a
\* transient failure of accept(2).
StartAcceptFail(s) ==
    /\ startPc[s] = "accept"
    /\ startPc' = [startPc EXCEPT ![s] = "acceptErr"]
    /\ UNCHANGED <<serverVars, lnCloses, startRet, startConn>>
    /\ UNCHANGED <<shutVars, connVars, clientVars>>

\* An accept loop that any Accept error ends.
acceptErrorReturnsAlways == TRUE

\* Whether the accept loop returns after an Accept error.
acceptErrorReturns == shuttingDown

\* "if s.shuttingDown() { return ErrServerClosed }", else log and continue.
StartAcceptErr(s) ==
    /\ startPc[s] = "acceptErr"
    /\ IF acceptErrorReturns
       THEN /\ startRet' = [startRet EXCEPT ![s] = ErrServerClosed]
            /\ startPc' = [startPc EXCEPT ![s] = "untrack"]
       ELSE /\ startPc' = [startPc EXCEPT ![s] = "accept"]
            /\ UNCHANGED startRet
    /\ UNCHANGED <<serverVars, lnCloses, startConn>>
    /\ UNCHANGED <<shutVars, connVars, clientVars>>

\* deferred trackListener(&listener, false)
StartUntrack(s) ==
    /\ startPc[s] = "untrack"
    /\ listeners' = listeners \ {s}
    /\ listenerGroup' = listenerGroup - 1
    /\ startPc' = [startPc EXCEPT ![s] = "close"]
    /\ UNCHANGED <<inShutdown, gracePeriod, activeConn, lnCloses,
                   startRet, startConn>>
    /\ UNCHANGED <<shutVars, connVars, clientVars>>

\* deferred listener.Close()
StartClose(s) ==
    /\ startPc[s] = "close"
    /\ lnCloses' = [lnCloses EXCEPT ![s] = @ + 1]
    /\ startPc' = [startPc EXCEPT ![s] = "done"]
    /\ UNCHANGED <<serverVars, startRet, startConn>>
    /\ UNCHANGED <<shutVars, connVars, clientVars>>

---------------------------------------------------------------------------
(* Server.Shutdown *)

\* A Shutdown that flips the flag instead of setting it.
ShutdownStoreToggles(h) ==
    /\ shutPc[h] = "init"
    /\ inShutdown' = ~inShutdown
    /\ shutPc' = [shutPc EXCEPT ![h] = "closeLn"]
    /\ UNCHANGED <<gracePeriod, listeners, listenerGroup, activeConn>>
    /\ UNCHANGED <<startVars, shutRet, lnerr, ctxErr, drainBegun, pollVars, connVars,
                   clientVars>>

\* s.inShutdown.Store(true)
ShutdownStore(h) ==
    /\ shutPc[h] = "init"
    /\ inShutdown' = TRUE
    /\ shutPc' = [shutPc EXCEPT ![h] = "closeLn"]
    /\ UNCHANGED <<gracePeriod, listeners, listenerGroup, activeConn>>
    /\ UNCHANGED <<startVars, shutRet, lnerr, ctxErr, drainBegun, pollVars, connVars,
                   clientVars>>

CloseError(ln) == IF ln = 1 THEN "close error 1" ELSE "close error 2"

\* closeListenersLocked: the error it returns when the Close of the listeners
\* in failed returned an error and first is the one the map iteration met first.
closeListenersLocked(failed, first) ==
    IF failed = {} THEN NoError ELSE CloseError(first)

\* s.mu.Lock(); lnerr := s.closeListenersLocked(); s.mu.Unlock().
\* Close of an already closed listener fails; any other Close may fail.
ShutdownCloseListeners(h) ==
    /\ shutPc[h] = "closeLn"
    /\ \E failed \in SUBSET listeners :
         /\ \A ln \in listeners : lnCloses[ln] > 0 => ln \in failed
         /\ \E first \in (IF failed = {} THEN {0} ELSE failed) :
              lnerr' = [lnerr EXCEPT ![h] = closeListenersLocked(failed, first)]
    /\ lnCloses' = [ln \in Starts |->
                      IF ln \in listeners THEN lnCloses[ln] + 1 ELSE lnCloses[ln]]
    /\ shutPc' = [shutPc EXCEPT ![h] = "wait"]
    /\ UNCHANGED <<serverVars, startPc, startRet, startConn>>
    /\ UNCHANGED <<shutRet, ctxErr, drainBegun, pollVars, connVars, clientVars>>

\* A Shutdown that does not wait for the accept loops.
listenerGroupWaitSkipped == TRUE

\* A WaitGroup whose Wait never returns.
listenerGroupWaitNever == FALSE

\* Whether s.listenerGroup.Wait() returns.
listenerGroupWaitReturns == listenerGroup = 0

ShutdownWait(h) ==
    /\ shutPc[h] = "wait"
    /\ listenerGroupWaitReturns
    /\ shutPc' = [shutPc EXCEPT ![h] = "scan"]
    /\ UNCHANGED <<serverVars, startVars>>
    /\ UNCHANGED <<shutRet, lnerr, ctxErr, drainBegun, pollVars, connVars, clientVars>>

\* A scan that does not look at whether the stamp was ever stored.
closableIgnoresZero(c) ==
    LET unixSec == getState(c).unixSec
        st == IF getState(c).state = StateNew /\ unixSec < now - StaleNewSecs
              THEN StateIdle
              ELSE getState(c).state
    IN  st = StateIdle

\* closeIdleConns: the per-connection test of the scan.
closable(c) ==
    LET unixSec == getState(c).unixSec
        st == IF getState(c).state = StateNew /\ unixSec < now - StaleNewSecs
              THEN StateIdle
              ELSE getState(c).state
    IN  ~(st # StateIdle \/ unixSec = 0)

\* A scan over every connection ever accepted instead of the active set.
closeIdleConnsOfAll == {c \in Conns : connPc[c] # "unborn" /\ closable(c)}

\* The connections one scan closes and deletes.
closeIdleConns == {c \in activeConn : closable(c)}

\* The error Shutdown returns when a scan found the set quiescent.
drainedReturn(h) == lnerr[h]

\* A scan that reports quiescent whatever it left in the set.
scanQuiescentAlways == TRUE

\* closeIdleConns: the result, true when no connection was left in the set.
scanQuiescent == closeIdleConns = activeConn

\* closeIdleConns under s.mu and "return lnerr" if it reported quiescent.
closeIdleConnsPass(h) ==
    /\ rwcCloses' = [c \in Conns |->
                       IF c \in closeIdleConns THEN rwcCloses[c] + 1 ELSE rwcCloses[c]]
    /\ activeConn' = activeConn \ closeIdleConns
    /\ drainBegun' = TRUE
    /\ IF scanQuiescent
       THEN /\ shutRet' = [shutRet EXCEPT ![h] = drainedReturn(h)]
            /\ shutPc' = [shutPc EXCEPT ![h] = "done"]
       ELSE /\ shutPc' = [shutPc EXCEPT ![h] = "select"]
            /\ UNCHANGED shutRet
    /\ UNCHANGED <<inShutdown, gracePeriod, listeners, listenerGroup>>
    /\ UNCHANGED <<startVars, lnerr, ctxErr>>
    /\ UNCHANGED <<connPc, curState, req, abandoned, delivered, clientVars>>

\* A pass of the loop of Shutdown that leaves the poll timer as it is.
DrainPass(h) ==
    /\ closeIdleConnsPass(h)
    /\ UNCHANGED pollVars

\* The first pass of the loop of Shutdown.
ShutdownScan(h) ==
    /\ shutPc[h] = "scan"
    /\ DrainPass(h)

\* select: case <-timer.C: the poll timer fired, and the next pass of the
\* loop. Every interval of the timer is below a second, the unit of the
\* clock, so the runs that follow the connections do not keep the intervals:
\* ShutdownWait and ShutdownPoll leave pollIntervalBase and timerInterval
\* alone, and ShutdownWaitNewTimer and ShutdownPollReset below are the same
\* steps with the timer kept.
ShutdownPoll(h) ==
    /\ shutPc[h] = "select"
    /\ DrainPass(h)

\* time.Millisecond, in nanoseconds.
Millisecond == 1000000

shutdownPollIntervalMax == 500 * Millisecond

\* Values of rand.Intn(n): the least two, the middle one and the greatest.
Jitters(n) == {0, 1, n \div 2, n - 1}

\* nextPollInterval: the base left for the next call.
nextPollBase(base) ==
    IF base * 2 > shutdownPollIntervalMax THEN shutdownPollIntervalMax ELSE base * 2

\* nextPollInterval, called by Shutdown h with pollIntervalBase = base: the
\* interval returned arms the timer.
nextPollInterval(h, base) ==
    /\ \E jitter \in Jitters(base \div 10) :
          timerInterval' = [timerInterval EXCEPT ![h] = base + jitter]
    /\ pollIntervalBase' = [pollIntervalBase EXCEPT ![h] = nextPollBase(base)]

\* s.listenerGroup.Wait(); pollIntervalBase := time.Millisecond;
\* timer := time.NewTimer(nextPollInterval())
ShutdownWaitNewTimer(h) ==
    /\ shutPc[h] = "wait"
    /\ listenerGroupWaitReturns
    /\ shutPc' = [shutPc EXCEPT ![h] = "scan"]
    /\ nextPollInterval(h, Millisecond)
    /\ UNCHANGED <<serverVars, startVars>>
    /\ UNCHANGED <<shutRet, lnerr, ctxErr, drainBegun, connVars, clientVars>>

\* select: case <-timer.C: timer.Reset(nextPollInterval()), and the next
\* pass of the loop.
ShutdownPollReset(h) ==
    /\ shutPc[h] = "select"
    /\ nextPollInterval(h, pollIntervalBase[h])
    /\ closeIdleConnsPass(h)

\* A Shutdown that closes and deletes the remaining connections when its
\* context is done.
ShutdownCtxDoneClosesAll(h) ==
    /\ shutPc[h] = "select"
    /\ ctxErr[h] # NoError
    /\ shutRet' = [shutRet EXCEPT ![h] = ctxErr[h]]
    /\ shutPc' = [shutPc EXCEPT ![h] = "done"]
    /\ rwcCloses' = [c \in Conns |->
                       IF c \in activeConn THEN rwcCloses[c] + 1 ELSE rwcCloses[c]]
    /\ activeConn' = {}
    /\ UNCHANGED <<inShutdown, gracePeriod, listeners, listenerGroup>>
    /\ UNCHANGED <<startVars, lnerr, ctxErr, drainBegun, pollVars>>
    /\ UNCHANGED <<connPc, curState, req, abandoned, delivered, clientVars>>

\* select: case <-ctx.Done(): return ctx.Err()
ShutdownCtxDone(h) ==
    /\ shutPc[h] = "select"
    /\ ctxErr[h] # NoError
    /\ shutRet' = [shutRet EXCEPT ![h] = ctxErr[h]]
    /\ shutPc' = [shutPc EXCEPT ![h] = "done"]
    /\ UNCHANGED <<serverVars, startVars>>
    /\ UNCHANGED <<lnerr, ctxErr, drainBegun, pollVars, connVars, clientVars>>

\* The caller's context is cancelled or its deadline passes. Nothing reads the
\* context before the select of Shutdown, so a context done before the call is
\* one done right after its first step.
CtxErrors == {"context deadline exceeded"}

CtxDone(h) ==
    /\ shutPc[h] \in {"closeLn", "wait", "scan", "select"}
    /\ ctxErr[h] = NoError
    /\ \E e \in CtxErrors : ctxErr' = [ctxErr EXCEPT ![h] = e]
    /\ UNCHANGED <<serverVars, startVars>>
    /\ UNCHANGED <<shutPc, shutRet, lnerr, drainBegun, pollVars, connVars, clientVars>>

---------------------------------------------------------------------------
(* conn.handleConnection and conn.handleRequestWrapped *)

\* A dispatch that races every request against the timer.
dispatchRacesAlways == TRUE

\* handleRequestWrapped, "if !c.server.inShutdown.Load()": the path taken.
dispatchRaces == inShutdown

\* The timeout of context.WithTimeout(context.Background(), gracePeriod).
raceTimeout == gracePeriod

\* scanner.Scan() returns a line; handleRequestWrapped up to the call of
\* handleRequest (synchronous), or up to the select (handler goroutine
\* started, timeout context created). After the drain closed the channel
\* Scan still returns a line that an earlier Read left in the scanner's
\* buffer; whether a line sent before the close is in the buffer depends on
\* when it arrived, so both outcomes are possible.
ConnScanLine(c) ==
    /\ connPc[c] = "scan"
    /\ inbuf[c] # <<>>
    /\ LET line == Head(inbuf[c]) IN
         /\ req' = [req EXCEPT ![c] =
                      [line |-> line, flag |-> dispatchRaces,
                       sleep |-> SleepSecs(processingTime(line)),
                       timer |-> IF dispatchRaces THEN raceTimeout ELSE 0]]
         /\ connPc' = [connPc EXCEPT ![c] =
                         IF dispatchRaces THEN "racing" ELSE "handling"]
    /\ inbuf' = [inbuf EXCEPT ![c] = Tail(@)]
    /\ UNCHANGED <<serverVars, startVars, shutVars>>
    /\ UNCHANGED <<curState, rwcCloses, abandoned, delivered, sent, clientGone>>

\* Whether scanner.Scan() returns false: end of stream, or the read failed
\* because the channel was closed under the reader.
scanEnds(c) ==
    \/ rwcCloses[c] > 0
    \/ inbuf[c] = <<>> /\ clientGone[c]

\* A handleConnection that returns without its deferred setState.
afterLoopSkipsDefer == "exited"

\* The position after the loop of handleConnection ended: the deferred
\* setState(StateClosed) runs.
afterLoop == "untrack"

ConnScanEnd(c) ==
    /\ connPc[c] = "scan"
    /\ scanEnds(c)
    /\ connPc' = [connPc EXCEPT ![c] = afterLoop]
    /\ UNCHANGED <<serverVars, startVars, shutVars>>
    /\ UNCHANGED <<curState, rwcCloses, req, abandoned, delivered, clientVars>>

\* Whether fmt.Fprintf(c.rwc, ...) reaches the client.
writeDelivers(c) == rwcCloses[c] = 0 /\ ~clientGone[c]

\* A run loop that writes to the connection accepted last, whichever
\* connection the request was read from.
RespondToLatest(c, response) ==
    LET latest == CHOOSE d \in Conns :
                      /\ connPc[d] # "unborn"
                      /\ \A e \in Conns : connPc[e] # "unborn" => e <= d
    IN  /\ delivered' = [delivered EXCEPT ![latest] =
                           IF writeDelivers(latest) THEN Append(@, response) ELSE @]
        /\ req' = [req EXCEPT ![c] = NoReq]
        /\ connPc' = [connPc EXCEPT ![c] = "scan"]

\* A run loop that a rejected request ends.
RespondEndsOnReject(c, response) ==
    /\ delivered' = [delivered EXCEPT ![c] =
                       IF writeDelivers(c) THEN Append(@, response) ELSE @]
    /\ req' = [req EXCEPT ![c] = NoReq]
    /\ connPc' = [connPc EXCEPT ![c] =
                    IF response \in {ResponseInvalidRequest, ResponseInvalidAmount}
                    THEN afterLoop ELSE "scan"]

\* fmt.Fprintf(c.rwc, "%s\n", response) of the response handleRequestWrapped
\* returned; the loop goes back to scanner.Scan().
Respond(c, response) ==
    /\ delivered' = [delivered EXCEPT ![c] =
                       IF writeDelivers(c) THEN Append(@, response) ELSE @]
    /\ req' = [req EXCEPT ![c] = NoReq]
    /\ connPc' = [connPc EXCEPT ![c] = "scan"]

\* "return c.handleRequest(request)": the synchronous handler returns.
ConnHandled(c) ==
    /\ connPc[c] = "handling"
    /\ req[c].sleep = 0
    /\ Respond(c, handleRequest(req[c].line))
    /\ UNCHANGED <<serverVars, startVars, shutVars>>
    /\ UNCHANGED <<curState, rwcCloses, abandoned, clientVars>>

\* select: case result := <-handleCh, the handler goroutine having returned
\* from handleRequest.
ConnRaceResult(c) ==
    /\ connPc[c] = "racing"
    /\ req[c].sleep = 0
    /\ Respond(c, handleRequest(req[c].line))
    /\ UNCHANGED <<serverVars, startVars, shutVars>>
    /\ UNCHANGED <<curState, rwcCloses, abandoned, clientVars>>

\* Whether the timeout context of the race is done.
raceTimerFired(c) == req[c].timer = 0

\* select: case <-ctx.Done(): return ResponseCancelled. The handler goroutine
\* is left behind; nothing receives from handleCh any more.
ConnRaceTimeout(c) ==
    /\ connPc[c] = "racing"
    /\ raceTimerFired(c)
    /\ Respond(c, ResponseCancelled)
    /\ abandoned' = [abandoned EXCEPT ![c] = Append(@, "running")]
    /\ UNCHANGED <<serverVars, startVars, shutVars>>
    /\ UNCHANGED <<curState, rwcCloses, clientVars>>

\* A handler goroutine left behind: handleRequest returns, after the rest of
\* its sleep, and the goroutine blocks in "handleCh <-" on a channel that has
\* no receiver.
AbandonedDone(c) ==
    /\ \E i \in 1..Len(abandoned[c]) :
         /\ abandoned[c][i] = "running"
         /\ abandoned' = [abandoned EXCEPT ![c][i] = "sending"]
    /\ UNCHANGED <<serverVars, startVars, shutVars>>
    /\ UNCHANGED <<connPc, curState, rwcCloses, req, delivered, clientVars>>

\* A deregistration that registers the connection when it is not in the set.
ConnUntrackToggles(c) ==
    /\ connPc[c] = "untrack"
    /\ activeConn' = IF c \in activeConn THEN activeConn \ {c} ELSE activeConn \cup {c}
    /\ connPc' = [connPc EXCEPT ![c] = "storeClosed"]
    /\ UNCHANGED <<inShutdown, gracePeriod, listeners, listenerGroup>>
    /\ UNCHANGED <<startVars, shutVars>>
    /\ UNCHANGED <<curState, rwcCloses, req, abandoned, delivered, clientVars>>

\* deferred setState(StateClosed): its trackConn(c, false)
ConnUntrack(c) ==
    /\ connPc[c] = "untrack"
    /\ activeConn' = activeConn \ {c}
    /\ connPc' = [connPc EXCEPT ![c] = "storeClosed"]
    /\ UNCHANGED <<inShutdown, gracePeriod, listeners, listenerGroup>>
    /\ UNCHANGED <<startVars, shutVars>>
    /\ UNCHANGED <<curState, rwcCloses, req, abandoned, delivered, clientVars>>

\* deferred setState(StateClosed): the store of the packed word; the
\* goroutine ends.
ConnStoreClosed(c) ==
    /\ connPc[c] = "storeClosed"
    /\ curState' = [curState EXCEPT ![c] = packedState(now, StateClosed)]
    /\ connPc' = [connPc EXCEPT ![c] = "exited"]
    /\ UNCHANGED <<serverVars, startVars, shutVars>>
    /\ UNCHANGED <<rwcCloses, req, abandoned, delivered, clientVars>>

---------------------------------------------------------------------------
(* The clients and the clock *)

\* The client of an accepted connection writes one request line.
ClientSend(c) ==
    /\ connPc[c] # "unborn"
    /\ ~clientGone[c]
    /\ rwcCloses[c] = 0
    /\ \E line \in Lines : inbuf' = [inbuf EXCEPT ![c] = Append(@, line)]
    /\ sent' = [sent EXCEPT ![c] = @ + 1]
    /\ UNCHANGED <<serverVars, startVars, shutVars, connVars, clientGone>>

\* The client closes its end of the connection.
ClientClose(c) ==
    /\ connPc[c] # "unborn"
    /\ ~clientGone[c]
    /\ clientGone' = [clientGone EXCEPT ![c] = TRUE]
    /\ UNCHANGED <<serverVars, startVars, shutVars, connVars, inbuf, sent>>

Earlier(t) == IF t > 0 THEN t - 1 ELSE 0

\* The sleeps and timeouts in progress after one more second.
TimersTick ==
    req' = [c \in Conns |->
              [req[c] EXCEPT !.sleep = Earlier(@), !.timer = Earlier(@)]]

\* A goroutine is running when its next step waits for nothing: not for a
\* connection in Accept, a line in Scan, the end of a sleep or of a timeout,
\* the WaitGroup, or the poll timer. A step of a running goroutine takes less
\* than a second, so a second passes only when no goroutine is running.
StartRunning(s) ==
    \/ startPc[s] \in {"track", "setNew", "acceptErr", "untrack", "close"}
    \/ startPc[s] = "accept" /\ lnCloses[s] > 0

ShutdownRunning(h) ==
    \/ shutPc[h] \in {"closeLn", "scan"}
    \/ shutPc[h] = "wait" /\ listenerGroupWaitReturns
    \/ shutPc[h] = "select" /\ ctxErr[h] # NoError

ConnRunning(c) ==
    \/ connPc[c] \in {"untrack", "storeClosed"}
    \/ connPc[c] = "scan" /\ (scanEnds(c) \/ inbuf[c] # <<>>)
    \/ connPc[c] = "handling" /\ req[c].sleep = 0
    \/ connPc[c] = "racing" /\ (req[c].sleep = 0 \/ raceTimerFired(c))

Running ==
    \/ \E s \in Starts : StartRunning(s)
    \/ \E h \in Shutdowns : ShutdownRunning(h)
    \/ \E c \in Conns : ConnRunning(c)

\* The packed word whose stamp lies one second further in the past. The
\* earliest stamp kept is 1, which every scan already takes for older than
\* 5 seconds; the word never stored stays 0.
EarlierStamp(p) ==
    IF p \div 256 > 1 THEN packedState((p \div 256) - 1, p % 256) ELSE p

\* A second passes. Only the stamps of the active set are ever read
\* (closeIdleConns), so only these are moved.
Tick ==
    /\ ~Running
    /\ curState' = [c \in Conns |->
                      IF c \in activeConn THEN EarlierStamp(curState[c]) ELSE curState[c]]
    /\ TimersTick
    /\ UNCHANGED <<serverVars, startVars, shutVars, clientVars>>
    /\ UNCHANGED <<connPc, rwcCloses, abandoned, delivered>>

---------------------------------------------------------------------------
(* The specifications *)

\* The steps of the runs of the scenarios.
NextIn(scenarios) ==
    \/ \E s \in Starts : MayStart(scenarios, s) /\ StartListen(s)
    \/ \E s \in Starts : StartTrackListener(s)
    \/ \E s \in Starts, c \in Conns : MayConnect(scenarios, c) /\ StartAccept(s, c)
    \/ \E s \in Starts : StartStoreNew(s)
    \/ \E s \in Starts : StartAcceptFail(s)
    \/ \E s \in Starts : StartAcceptErr(s)
    \/ \E s \in Starts : StartUntrack(s)
    \/ \E s \in Starts : StartClose(s)
    \/ \E h \in Shutdowns : MayShutdown(scenarios, h) /\ ShutdownStore(h)
    \/ \E h \in Shutdowns : ShutdownCloseListeners(h)
    \/ \E h \in Shutdowns : ShutdownWait(h)
    \/ \E h \in Shutdowns : ShutdownScan(h)
    \/ \E h \in Shutdowns : ShutdownPoll(h)
    \/ \E h \in Shutdowns : ShutdownCtxDone(h)
    \/ \E h \in Shutdowns : CtxDone(h)
    \/ \E c \in Conns : ConnScanLine(c)
    \/ \E c \in Conns : ConnScanEnd(c)
    \/ \E c \in Conns : ConnHandled(c)
    \/ \E c \in Conns : ConnRaceResult(c)
    \/ \E c \in Conns : ConnRaceTimeout(c)
    \/ \E c \in Conns : AbandonedDone(c)
    \/ \E c \in Conns : ConnUntrack(c)
    \/ \E c \in Conns : ConnStoreClosed(c)
    \/ \E c \in Conns : MaySend(scenarios, c) /\ ClientSend(c)
    \/ \E c \in Conns : ClientClose(c)
    \/ Tick

Next == NextIn(Scenarios)

Spec == Init /\ [][Next]_vars

\* The next step of the goroutine of a Start call that waits for nothing
\* outside the program: Accept on a closed listener returns an error.
StartStep(s) ==
    \/ StartTrackListener(s)
    \/ StartStoreNew(s)
    \/ lnCloses[s] > 0 /\ StartAcceptFail(s)
    \/ StartAcceptErr(s)
    \/ StartUntrack(s)
    \/ StartClose(s)

\* The next step of a Shutdown call, the firing of its poll timer included.
ShutdownStep(h) ==
    \/ ShutdownCloseListeners(h)
    \/ ShutdownWait(h)
    \/ ShutdownScan(h)
    \/ ShutdownPoll(h)
    \/ ShutdownCtxDone(h)

\* The next step of the goroutine of a connection.
ConnStep(c) ==
    \/ ConnScanLine(c)
    \/ ConnScanEnd(c)
    \/ ConnHandled(c)
    \/ ConnRaceResult(c)
    \/ ConnRaceTimeout(c)
    \/ ConnUntrack(c)
    \/ ConnStoreClosed(c)

\* The Go scheduler runs every goroutine that can take a step, and time
\* passes: the steps of the program take time, so a second that can pass
\* again and again does pass. Nothing is assumed of the callers of Start and Shutdown, of the
\* clients, of the caller's context or of failures of Accept on an open
\* listener.
Fairness ==
    /\ \A s \in Starts : WF_vars(StartStep(s))
    /\ \A h \in Shutdowns : WF_vars(ShutdownStep(h))
    /\ \A c \in Conns : WF_vars(ConnStep(c))
    /\ SF_vars(Tick)

\* The runs of one call of Start, one call of Shutdown and one connection
\* with one request, under fair scheduling.
LiveScenarios == {Scenario(1, 1, 1, 1)}
NextLive == NextIn(LiveScenarios)
FairSpec == Init /\ [][NextLive]_vars /\ Fairness

---------------------------------------------------------------------------
(* C1: a request dispatched before Shutdown *)

\* The handler's sleep in whole seconds, for a line.
HandlerSecs(line) == SleepSecs(processingTime(line))

\* C1: for a request dispatched while the shutdown flag was false, once
\* Shutdown has been invoked the client, still connected, receives exactly
\* one response when the server has served the request: the handler's normal
\* response if the handler takes no longer than the grace period, otherwise
\* the handler's response or RESPONSE|REJECTED|Cancelled; it never receives
\* none.
C1_OneResponseBeforeShutdown ==
    [][\A c \in Conns :
         (/\ connPc[c] = "handling" /\ connPc'[c] = "scan"
          /\ ~req[c].flag /\ inShutdown /\ ~clientGone[c])
         => \E r \in IF HandlerSecs(req[c].line) <= gracePeriod
                     THEN {handleRequest(req[c].line)}
                     ELSE {handleRequest(req[c].line), ResponseCancelled} :
               delivered'[c] = Append(delivered[c], r)]_vars

---------------------------------------------------------------------------
(* C2: the shutdown test *)

\* The client of a connection accepted within the present second has sent
\* PAYMENT|20000, the server has read it and Shutdown has set the flag, in
\* either order, all within that second.
ShutdownRightAfterRequest(c) ==
    /\ connPc[c] \in {"handling", "racing"}
    /\ sent[c] = 1
    /\ req[c].line = Pay20000
    /\ req[c].sleep = HandlerSecs(Pay20000)
    /\ getState(c).unixSec = now
    /\ inShutdown

\* The cases the scenario leaves out: the client closes its end, the
\* caller's context is cancelled, closing the listener fails.
OutsideShutdownTest(c) ==
    \/ clientGone[c]
    \/ \E h \in Shutdowns : ctxErr[h] # NoError \/ lnerr[h] # NoError

\* C2: when a client sends PAYMENT|20000 and Shutdown is called right
\* afterwards with a context that is never cancelled, then, whichever of the
\* read of the request and the store of the flag comes first, Shutdown
\* returns no error and the client reads RESPONSE|REJECTED|Cancelled as the
\* response on the connection.
C2_ShutdownTestReadsCancelled ==
    \A c \in Conns :
        ShutdownRightAfterRequest(c) ~>
            \/ OutsideShutdownTest(c)
            \/ /\ delivered[c] = <<ResponseCancelled>>
               /\ \A h \in Shutdowns :
                     shutPc[h] # "init" => shutPc[h] = "done" /\ shutRet[h] = NoError

---------------------------------------------------------------------------
(* C3: the order of the steps of Shutdown *)

\* The positions of Start from the registration of its listener to the
\* WaitGroup's Done: the accept loop and the deferred trackListener.
InAcceptLoop == {"accept", "setNew", "acceptErr", "untrack"}

\* Some call of Shutdown has run closeListenersLocked.
CloseAllDone == \E h \in Shutdowns : shutPc[h] \notin {"init", "closeLn"}

\* No listener is registered and no accept loop is running.
AcceptingOver ==
    /\ listeners = {}
    /\ listenerGroup = 0
    /\ \A s \in Starts : startPc[s] \notin InAcceptLoop

\* C3: in every interleaving of Start and Shutdown, a listener is closed only
\* after the shutdown flag is set; once the close-all step has run every
\* registered listener is closed; at the first drain scan of the connection
\* set and ever after no listener is registered and every accept loop has
\* exited; and once a drain scan has run no connection is added to the
\* active set.
C3_ShutdownStepsOrdered ==
    [][/\ \A s \in Starts : lnCloses'[s] # lnCloses[s] => inShutdown
       /\ CloseAllDone' => \A s \in listeners' : lnCloses'[s] > 0
       /\ (~drainBegun /\ drainBegun') => AcceptingOver
       /\ drainBegun' => AcceptingOver'
       /\ drainBegun => activeConn' \subseteq activeConn]_vars

\* A drain scan has run with a connection in the active set, after a Start
\* call that had registered its listener returned.
C3_Witness ==
    /\ drainBegun
    /\ activeConn # {}
    /\ \E s \in Starts : startPc[s] = "done" /\ startRet[s] = ErrServerClosed

---------------------------------------------------------------------------
(* C4: the result of Shutdown *)

\* C4: the result of a Shutdown call that has returned is the context's
\* error only if the context is done, in which case it is that error or what
\* a quiescent scan returns; otherwise it is the first listener-close error
\* if a close failed, otherwise no error; and a listener-close error is
\* never dropped: the result is not the bare context error when a close
\* failed.
C4_ShutdownResult ==
    \A h \in Shutdowns :
        shutPc[h] = "done" =>
            /\ ctxErr[h] # NoError => shutRet[h] \in {ctxErr[h], lnerr[h]}
            /\ ctxErr[h] = NoError => shutRet[h] = lnerr[h]
            /\ lnerr[h] # NoError => shutRet[h] \notin CtxErrors

---------------------------------------------------------------------------
(* C5: registration of a listener *)

\* C5: a listener is registered only while the shutdown flag is false; a
\* registration attempted with the flag true makes Start return
\* ErrServerClosed and leaves the listener set and the WaitGroup counter
\* unchanged; and no registered listener is missed by the close-all step:
\* once it has run, every registered listener has been closed.
C5_RegisterOnlyBeforeShutdown ==
    [][/\ \A s \in Starts : (s \in listeners' /\ s \notin listeners) => ~inShutdown
       /\ \A s \in Starts :
             (startPc[s] = "track" /\ startPc'[s] # "track" /\ inShutdown)
             => /\ startPc'[s] = "done"
                /\ startRet'[s] = ErrServerClosed
                /\ listeners' = listeners
                /\ listenerGroup' = listenerGroup
       /\ \A h \in Shutdowns :
             (shutPc[h] = "closeLn" /\ shutPc'[h] # "closeLn")
             => \A s \in listeners : lnCloses'[s] = lnCloses[s] + 1
       /\ CloseAllDone' => \A s \in listeners' : lnCloses'[s] > 0]_vars

\* One Start call has returned ErrServerClosed without its listener in the
\* set while the listener of the other, registered before the flag was set,
\* has been closed by the close-all step and is still registered.
C5_Witness ==
    \E s, t \in Starts :
        /\ startPc[s] = "done" /\ startRet[s] = ErrServerClosed /\ s \notin listeners
        /\ t \in listeners /\ lnCloses[t] > 0 /\ CloseAllDone

---------------------------------------------------------------------------
(* C6: errors of Accept *)

\* C6: an Accept error met with the flag false keeps Start in its loop, one
\* met with the flag true makes Start leave the loop with ErrServerClosed and
\* unregister its listener; Start leaves the loop in no other way, and it
\* returns only on a bind failure, a late registration or such an Accept
\* error.
C6_AcceptErrors ==
    [][\A s \in Starts :
         /\ (startPc[s] = "acceptErr" /\ startPc'[s] # "acceptErr")
            => IF inShutdown
               THEN startPc'[s] = "untrack" /\ startRet'[s] = ErrServerClosed
               ELSE startPc'[s] = "accept" /\ startRet'[s] = startRet[s]
         /\ (startPc'[s] = "untrack" /\ startPc[s] # "untrack")
            => startPc[s] = "acceptErr" /\ inShutdown
         /\ (startPc[s] = "untrack" /\ startPc'[s] # "untrack")
            => startPc'[s] = "close" /\ s \notin listeners'
         /\ (startPc'[s] = "done" /\ startPc[s] # "done")
            => \/ startPc[s] = "init" /\ startRet'[s] = BindError
               \/ startPc[s] = "track" /\ inShutdown /\ startRet'[s] = ErrServerClosed
               \/ startPc[s] = "close" /\ startRet'[s] = ErrServerClosed]_vars

\* A Start call has left its loop on an Accept error met during shutdown
\* and unregistered its listener, after it had accepted a connection.
C6_Witness ==
    \E s \in Starts :
        /\ startPc[s] = "close" /\ startRet[s] = ErrServerClosed
        /\ s \notin listeners
        /\ \E c \in Conns : connPc[c] # "unborn"

---------------------------------------------------------------------------
(* C7: the shutdown flag *)

\* C7: the shutdown flag, false at first, is set only by the first step of a
\* Shutdown call, and once true it is true after every later step.
C7_FlagMonotone ==
    [][/\ inShutdown => inShutdown'
       /\ (~inShutdown /\ inShutdown')
          => \E h \in Shutdowns : shutPc[h] = "init" /\ shutPc'[h] = "closeLn"]_vars

\* The flag is true after a second call of Shutdown has stored it, a first
\* call having returned.
C7_Witness ==
    /\ inShutdown
    /\ \E h, g \in Shutdowns : shutPc[h] = "done" /\ g # h /\ shutPc[g] # "init"

---------------------------------------------------------------------------
(* C8: dispatch of one request *)

\* The responses a step of connection c hands to the client.
Written(c) ==
    IF delivered'[c] = delivered[c] THEN {}
    ELSE {r \in {ResponseAccepted, ResponseTransactionProcessed, ResponseInvalidRequest,
                  ResponseInvalidAmount, ResponseRejected, ResponseCancelled} :
            delivered'[c] = Append(delivered[c], r)}

\* C8: the flag read at dispatch chooses the path: false, the handler runs
\* synchronously with no timer and its result is the response; true, the
\* handler is raced against a timer of the grace period, and the response is
\* the handler's result if the handler has finished and the timer has not
\* fired, Cancelled if the timer has fired and the handler has not finished,
\* one of the two if both have; each request gets one response, and a
\* handler is left behind only by the timer.
C8_DispatchByFlag ==
    [][\A c \in Conns :
         /\ (connPc[c] = "scan" /\ connPc'[c] \in {"handling", "racing"})
            => /\ (connPc'[c] = "racing") = inShutdown
               /\ req'[c].flag = inShutdown
               /\ req'[c].timer = (IF inShutdown THEN gracePeriod ELSE 0)
               /\ req'[c].line = Head(inbuf[c])
               /\ delivered'[c] = delivered[c]
         /\ (connPc[c] = "handling" /\ connPc'[c] # "handling")
            => /\ connPc'[c] = "scan" /\ ~req[c].flag /\ req[c].sleep = 0
               /\ abandoned'[c] = abandoned[c]
               /\ writeDelivers(c) => Written(c) = {handleRequest(req[c].line)}
               /\ ~writeDelivers(c) => Written(c) = {}
         /\ (connPc[c] = "racing" /\ connPc'[c] # "racing")
            => /\ connPc'[c] = "scan" /\ req[c].flag
               /\ req[c].sleep = 0 \/ req[c].timer = 0
               /\ writeDelivers(c)
                  => \/ /\ Written(c) = {handleRequest(req[c].line)}
                        /\ req[c].sleep = 0 /\ abandoned'[c] = abandoned[c]
                     \/ /\ Written(c) = {ResponseCancelled}
                        /\ req[c].timer = 0 /\ abandoned'[c] # abandoned[c]
               /\ ~writeDelivers(c) => Written(c) = {}
         /\ connPc[c] \notin {"handling", "racing"} => delivered'[c] = delivered[c]]_vars

\* A client has received Cancelled for a request raced against the timer, and
\* a normal response for one dispatched synchronously before it.
C8_Witness ==
    \E c \in Conns :
        /\ Len(delivered[c]) = 2
        /\ delivered[c][1] # ResponseCancelled
        /\ delivered[c][2] = ResponseCancelled

---------------------------------------------------------------------------
(* C9: release of the channel *)

\* C9: when the run loop of a connection has ended and the connection has
\* become Closed, its network channel has been closed.
C9_ChannelReleased ==
    \A c \in Conns :
        (connPc[c] = "exited" /\ getState(c).state = StateClosed) => rwcCloses[c] > 0

---------------------------------------------------------------------------
(* C10: every connection ends Closed *)

\* The stream of the connection has ended (the client closed its end) or its
\* channel was closed under it by the drain.
StreamOver(c) == connPc[c] # "unborn" /\ (clientGone[c] \/ rwcCloses[c] > 0)

\* C10: under fair scheduling, a connection whose stream has ended, or whose
\* channel the drain has closed so that its read fails, eventually has state
\* Closed with its goroutine ended; and the state cell of a connection that
\* is Closed never changes again.
C10_EventuallyClosed ==
    /\ \A c \in Conns :
          StreamOver(c) ~> (getState(c).state = StateClosed /\ connPc[c] = "exited")
    /\ [][\A c \in Conns :
            getState(c).state = StateClosed => curState'[c] = curState[c]]_vars

\* A connection whose channel the drain closed in the middle of a request
\* has become Closed.
C10_Witness ==
    \E c \in Conns :
        /\ getState(c).state = StateClosed /\ connPc[c] = "exited"
        /\ rwcCloses[c] > 0 /\ ~clientGone[c] /\ sent[c] > 0 /\ delivered[c] = <<>>

---------------------------------------------------------------------------
(* The handler on one connection, away from Shutdown *)

\* Request lines around every branch of handleRequest.
Pay10 == <<"P", "A", "Y", "M", "E", "N", "T", "|", "1", "0">>
Pay100 == <<"P", "A", "Y", "M", "E", "N", "T", "|", "1", "0", "0">>
Pay101 == <<"P", "A", "Y", "M", "E", "N", "T", "|", "1", "0", "1">>
Pay10000 == <<"P", "A", "Y", "M", "E", "N", "T", "|", "1", "0", "0", "0",
    "0">>
Pay10001 == <<"P", "A", "Y", "M", "E", "N", "T", "|", "1", "0", "0", "0",
    "1">>
PayZero == <<"P", "A", "Y", "M", "E", "N", "T", "|", "0">>
PayNegative == <<"P", "A", "Y", "M", "E", "N", "T", "|", "-", "5">>
PayLetters == <<"P", "A", "Y", "M", "E", "N", "T", "|", "1", "x">>
PayNoAmount == <<"P", "A", "Y", "M", "E", "N", "T", "|">>
PayOneField == <<"P", "A", "Y", "M", "E", "N", "T">>
PayThreeFields == <<"P", "A", "Y", "M", "E", "N", "T", "|", "1", "|", "2">>
EmptyLine == <<>>
PayPlus == <<"P", "A", "Y", "M", "E", "N", "T", "|", "+", "7">>
PayLeadingZeros == <<"P", "A", "Y", "M", "E", "N", "T", "|", "0", "0", "7">>
PayLowerCase == <<"p", "a", "y", "m", "e", "n", "t", "|", "1", "0">>
PayMaxInt == <<"P", "A", "Y", "M", "E", "N", "T", "|", "9", "2", "2", "3",
    "3", "7", "2", "0", "3", "6", "8", "5", "4", "7", "7", "5", "8", "0",
    "7">>
PayOverInt == <<"P", "A", "Y", "M", "E", "N", "T", "|", "9", "2", "2", "3",
    "3", "7", "2", "0", "3", "6", "8", "5", "4", "7", "7", "5", "8", "0",
    "8">>
TestLines ==
    {Pay2000, Pay20000, Invalid100,
     Pay10, Pay100, Pay101, Pay10000, Pay10001, PayZero, PayNegative,
     PayLetters, PayNoAmount, PayOneField, PayThreeFields, EmptyLine,
     PayPlus, PayLeadingZeros, PayLowerCase, PayMaxInt, PayOverInt}

\* The most lines a client has written before the server reads the first.
MaxQueued == 2

\* The sequences of 1..MaxQueued test lines.
QueuedLines == UNION {[1..n -> TestLines] : n \in 1..MaxQueued}

\* Start has registered its listener and accepted connection 1 within the
\* present second, and the client has written its lines.
InitHandler ==
    /\ inShutdown = FALSE
    /\ gracePeriod \in GracePeriods
    /\ listeners = {1}
    /\ listenerGroup = 1
    /\ activeConn = {1}
    /\ lnCloses = [s \in Starts |-> 0]
    /\ startPc = [s \in Starts |-> IF s = 1 THEN "accept" ELSE "init"]
    /\ startRet = [s \in Starts |-> NoError]
    /\ startConn = [s \in Starts |-> NoConn]
    /\ shutPc = [h \in Shutdowns |-> "init"]
    /\ shutRet = [h \in Shutdowns |-> NoError]
    /\ lnerr = [h \in Shutdowns |-> NoError]
    /\ ctxErr = [h \in Shutdowns |-> NoError]
    /\ drainBegun = FALSE
    /\ pollIntervalBase = [h \in Shutdowns |-> 0]
    /\ timerInterval = [h \in Shutdowns |-> 0]
    /\ connPc = [c \in Conns |-> IF c = 1 THEN "scan" ELSE "unborn"]
    /\ curState = [c \in Conns |-> IF c = 1 THEN packedState(now, StateNew) ELSE 0]
    /\ rwcCloses = [c \in Conns |-> 0]
    /\ \E q \in QueuedLines :
          /\ inbuf = [c \in Conns |-> IF c = 1 THEN q ELSE <<>>]
          /\ sent = [c \in Conns |-> IF c = 1 THEN Len(q) ELSE 0]
    /\ clientGone = [c \in Conns |-> FALSE]
    /\ req = [c \in Conns |-> NoReq]
    /\ abandoned = [c \in Conns |-> <<>>]
    /\ delivered = [c \in Conns |-> <<>>]

\* The steps of the connection while no Shutdown is called.
NextHandler ==
    \/ \E c \in Conns : ConnScanLine(c)
    \/ \E c \in Conns : ConnHandled(c)
    \/ \E c \in Conns : ConnScanEnd(c)
    \/ \E c \in Conns : ConnUntrack(c)
    \/ \E c \in Conns : ConnStoreClosed(c)
    \/ \E c \in Conns : ClientClose(c)
    \/ Tick

HandlerSpec == InitHandler /\ [][NextHandler]_vars

---------------------------------------------------------------------------
(* C11: rejected requests *)

Rejections == {ResponseInvalidRequest, ResponseInvalidAmount}

\* C11: the step that answers a request the handler rejects writes the
\* rejection as the response and goes back to the read, leaving the channel
\* open, the connection's membership of the active set, its state cell and
\* the lines still unread as they were; and the connection whose last
\* response was a rejection dispatches its next line as any other, which is
\* answered with the handler's response to it.
C11_RejectionKeepsServing ==
    [][\A c \in Conns :
         /\ (/\ connPc[c] = "handling" /\ connPc'[c] # "handling"
             /\ handleRequest(req[c].line) \in Rejections)
            => /\ connPc'[c] = "scan"
               /\ rwcCloses'[c] = rwcCloses[c]
               /\ (c \in activeConn') = (c \in activeConn)
               /\ curState'[c] = curState[c]
               /\ inbuf'[c] = inbuf[c]
               /\ writeDelivers(c)
                  => delivered'[c] = Append(delivered[c], handleRequest(req[c].line))
         /\ (/\ connPc[c] = "scan" /\ connPc'[c] # "scan"
             /\ delivered[c] # <<>>
             /\ delivered[c][Len(delivered[c])] \in Rejections
             /\ inbuf[c] # <<>> /\ rwcCloses[c] = 0)
            => /\ connPc'[c] \in {"handling", "racing"}
               /\ req'[c].line = Head(inbuf[c])
         /\ (/\ connPc[c] = "handling" /\ connPc'[c] # "handling"
             /\ delivered[c] # <<>>
             /\ delivered[c][Len(delivered[c])] \in Rejections
             /\ writeDelivers(c))
            => delivered'[c] = Append(delivered[c], handleRequest(req[c].line))]_vars

\* A client has received a rejection and then, on the same connection, the
\* acceptance of its next request, the connection still open and active.
C11_Witness ==
    \E c \in Conns :
        /\ Len(delivered[c]) = 2
        /\ delivered[c][1] = ResponseInvalidAmount
        /\ delivered[c][2] = ResponseTransactionProcessed
        /\ rwcCloses[c] = 0 /\ c \in activeConn

---------------------------------------------------------------------------
(* C12: the handler against its reference *)

\* The reference, read off the line position by position.
RefSeparators(line) == {i \in 1..Len(line) : line[i] = "|"}
RefSeparator(line) == CHOOSE i \in RefSeparators(line) : TRUE
RefCommand(line) == SubSeq(line, 1, RefSeparator(line) - 1)
RefAmountField(line) == SubSeq(line, RefSeparator(line) + 1, Len(line))

RefDigitValue ==
    "0" :> 0 @@ "1" :> 1 @@ "2" :> 2 @@ "3" :> 3 @@ "4" :> 4 @@
    "5" :> 5 @@ "6" :> 6 @@ "7" :> 7 @@ "8" :> 8 @@ "9" :> 9

RefUnsigned(f) ==
    IF f # <<>> /\ f[1] \in {"+", "-"} THEN SubSeq(f, 2, Len(f)) ELSE f

\* The digits that count: those from the first non-zero digit on.
RefSignificant(f) ==
    LET u == RefUnsigned(f)
        nonzero == {i \in 1..Len(u) : u[i] # "0"}
    IN  IF nonzero = {} THEN <<>>
        ELSE SubSeq(u, CHOOSE i \in nonzero : \A j \in nonzero : i <= j, Len(u))

\* A decimal integer: an optional sign and one or more digits, of a value
\* an int holds.
RefIsInteger(f) ==
    /\ RefUnsigned(f) # <<>>
    /\ \A i \in 1..Len(RefUnsigned(f)) : RefUnsigned(f)[i] \in DOMAIN RefDigitValue
    /\ DigitsAtMost(RefSignificant(f), IF f[1] = "-" THEN MinIntDigits ELSE MaxIntDigits)

RefPositive(f) == f[1] # "-" /\ RefSignificant(f) # <<>>

\* The value of at most five significant digits, as the sum of the digits
\* times their powers of ten.
RefAmount(f) ==
    LET d == RefSignificant(f)
        n == Len(d)
        pow == <<1, 10, 100, 1000, 10000>>
        sum[i \in 0..n] ==
            IF i = 0 THEN 0 ELSE sum[i - 1] + RefDigitValue[d[n - i + 1]] * pow[i]
    IN  sum[n]

RefValid(line) ==
    /\ Cardinality(RefSeparators(line)) = 1
    /\ RefCommand(line) = PAYMENT

RefResponse(line) ==
    IF ~RefValid(line) THEN ResponseInvalidRequest
    ELSE IF ~RefIsInteger(RefAmountField(line)) \/ ~RefPositive(RefAmountField(line))
         THEN ResponseInvalidAmount
    ELSE ResponseTransactionProcessed

RefDelayMs(line) ==
    IF RefResponse(line) # ResponseTransactionProcessed THEN 0
    ELSE IF Len(RefSignificant(RefAmountField(line))) > 5 THEN 10000
    ELSE LET a == RefAmount(RefAmountField(line))
         IN  IF a <= 100 THEN 0 ELSE IF a <= 10000 THEN a ELSE 10000

---------------------------------------------------------------------------
(* Two connections served concurrently *)

\* One Start, one Shutdown, two connections with one request each.
ConnScenarios == {Scenario(1, 1, 2, 1)}

\* The steps of these runs: the clients stay connected and Accept fails only
\* on the closed listener.
NextConns ==
    \/ \E s \in Starts : MayStart(ConnScenarios, s) /\ StartListen(s)
    \/ \E s \in Starts : StartTrackListener(s)
    \/ \E s \in Starts, c \in Conns : MayConnect(ConnScenarios, c) /\ StartAccept(s, c)
    \/ \E s \in Starts : StartStoreNew(s)
    \/ \E s \in Starts : lnCloses[s] > 0 /\ StartAcceptFail(s)
    \/ \E s \in Starts : StartAcceptErr(s)
    \/ \E s \in Starts : StartUntrack(s)
    \/ \E s \in Starts : StartClose(s)
    \/ \E h \in Shutdowns : MayShutdown(ConnScenarios, h) /\ ShutdownStore(h)
    \/ \E h \in Shutdowns : ShutdownCloseListeners(h)
    \/ \E h \in Shutdowns : ShutdownWait(h)
    \/ \E h \in Shutdowns : ShutdownScan(h)
    \/ \E h \in Shutdowns : ShutdownPoll(h)
    \/ \E h \in Shutdowns : ShutdownCtxDone(h)
    \/ \E h \in Shutdowns : CtxDone(h)
    \/ \E c \in Conns : ConnScanLine(c)
    \/ \E c \in Conns : ConnScanEnd(c)
    \/ \E c \in Conns : ConnHandled(c)
    \/ \E c \in Conns : ConnRaceResult(c)
    \/ \E c \in Conns : ConnRaceTimeout(c)
    \/ \E c \in Conns : AbandonedDone(c)
    \/ \E c \in Conns : ConnUntrack(c)
    \/ \E c \in Conns : ConnStoreClosed(c)
    \/ \E c \in Conns : MaySend(ConnScenarios, c) /\ ClientSend(c)
    \/ Tick

ConnsSpec == Init /\ [][NextConns]_vars

---------------------------------------------------------------------------
(* C13: no cross-talk *)

\* C13: with connections served concurrently, each sending one request, a
\* step hands a response to the client of a connection only when it answers
\* the request read from that connection, the response being the handler's
\* response to that request or Cancelled; it hands nothing to any other
\* connection, and no connection receives more responses than it sent
\* requests.
C13_NoCrossTalk ==
    [][\A c \in Conns :
         /\ delivered'[c] # delivered[c]
            => /\ connPc[c] \in {"handling", "racing"} /\ connPc'[c] = "scan"
               /\ \E r \in {handleRequest(req[c].line), ResponseCancelled} :
                     delivered'[c] = Append(delivered[c], r)
               /\ \A d \in Conns \ {c} : delivered'[d] = delivered[d]
         /\ (connPc[c] \in {"handling", "racing"} /\ connPc'[c] = "scan" /\ writeDelivers(c))
            => delivered'[c] # delivered[c]
         /\ Len(delivered'[c]) <= sent'[c]]_vars

\* Two connections in service at the same time have each received the
\* response to their own request, the two responses different.
C13_Witness ==
    /\ activeConn = Conns
    /\ delivered[1] = <<ResponseInvalidRequest>>
    /\ delivered[2] = <<ResponseTransactionProcessed>>

---------------------------------------------------------------------------
(* C14: the deadline cancels the wait, not the connections *)

\* The step in which Shutdown h returns the error of its context.
ReturnsCtxErr(h) ==
    /\ shutPc[h] = "select"
    /\ shutPc'[h] = "done"
    /\ shutRet'[h] \in CtxErrors

\* C14: the step in which Shutdown returns the deadline or cancellation error
\* changes nothing of any connection: every connection left in the active set
\* by the last drain scan is still in it, its channel never closed and its
\* state cell as before, and no connection's goroutine, request or output is
\* touched.
C14_DeadlineCancelsOnlyWait ==
    [][\A h \in Shutdowns :
         ReturnsCtxErr(h)
         => /\ activeConn' = activeConn
            /\ \A c \in activeConn : rwcCloses'[c] = 0 /\ curState'[c] = curState[c]
            /\ UNCHANGED <<connVars, clientVars>>]_vars

\* Shutdown has returned the error of its context and a connection with a
\* request in progress is still in the active set, its channel open.
C14_Witness ==
    \E h \in Shutdowns, c \in Conns :
        /\ shutPc[h] = "done"
        /\ shutRet[h] \in CtxErrors
        /\ c \in activeConn
        /\ connPc[c] \in {"handling", "racing"}
        /\ rwcCloses[c] = 0
        /\ getState(c).state = StateNew

---------------------------------------------------------------------------
(* C15: membership of the active set and the lifecycle state *)

\* C15: in every state an accepted connection is in the active set if and
\* only if the state in its state cell is not Closed.
C15_ActiveIffNotClosed ==
    \A c \in Conns :
        connPc[c] # "unborn"
        => (c \in activeConn <=> getState(c).state # StateClosed)

---------------------------------------------------------------------------
(* C16: Idle between requests *)

\* Connection c is blocked in scanner.Scan: nothing to read, the client
\* connected and the channel open.
AwaitsLine(c) ==
    /\ connPc[c] = "scan"
    /\ inbuf[c] = <<>>
    /\ ~clientGone[c]
    /\ rwcCloses[c] = 0

\* C16: whenever a connection that has answered at least one request waits
\* for its next request line, the state in its state cell is Idle.
C16_IdleBetweenRequests ==
    \A c \in Conns :
        (Len(delivered[c]) >= 1 /\ AwaitsLine(c))
        => getState(c).state = StateIdle

---------------------------------------------------------------------------
(* C17: the drain and a request in progress *)

\* A step in which the drain closes the channel of connection c.
DrainCloses(c) == rwcCloses'[c] > rwcCloses[c]

\* C17: the drain never closes a connection while a request read from it
\* awaits its response.
C17_DrainSparesRequests ==
    [][\A c \in Conns :
         DrainCloses(c) => (connPc[c] \notin {"handling", "racing"} /\ req[c] = NoReq)]_vars

---------------------------------------------------------------------------
(* One drain scan over any contents of the active set *)

\* The words a state cell can hold: any lifecycle state with any stamp of
\* the time scale, 0 being the stamp of a cell never stored.
StateWords ==
    {packedState(t, st) : t \in 0..Present, st \in {StateNew, StateIdle, StateClosed}}

\* Shutdown 1 is about to make its first scan: Start 1 has returned, its
\* listener closed by Shutdown and by its own deferred Close. The active set
\* and the state cells of its members are drawn freely, so that every branch
\* of closeIdleConns is taken; the connections of the set are blocked in Scan.
InitScan ==
    /\ inShutdown = TRUE
    /\ gracePeriod \in GracePeriods
    /\ listeners = {}
    /\ listenerGroup = 0
    /\ activeConn \in SUBSET Conns
    /\ lnCloses = [s \in Starts |-> IF s = 1 THEN 2 ELSE 0]
    /\ startPc = [s \in Starts |-> IF s = 1 THEN "done" ELSE "init"]
    /\ startRet = [s \in Starts |-> IF s = 1 THEN ErrServerClosed ELSE NoError]
    /\ startConn = [s \in Starts |-> NoConn]
    /\ shutPc = [h \in Shutdowns |-> IF h = 1 THEN "scan" ELSE "init"]
    /\ shutRet = [h \in Shutdowns |-> NoError]
    /\ lnerr = [h \in Shutdowns |-> NoError]
    /\ ctxErr = [h \in Shutdowns |-> NoError]
    /\ drainBegun = FALSE
    /\ pollIntervalBase = [h \in Shutdowns |-> 0]
    /\ timerInterval = [h \in Shutdowns |-> 0]
    /\ connPc = [c \in Conns |-> IF c \in activeConn THEN "scan" ELSE "unborn"]
    /\ curState \in [Conns -> StateWords \cup {0}]
    /\ \A c \in Conns : c \notin activeConn => curState[c] = 0
    /\ rwcCloses = [c \in Conns |-> 0]
    /\ inbuf = [c \in Conns |-> <<>>]
    /\ sent = [c \in Conns |-> 0]
    /\ clientGone = [c \in Conns |-> FALSE]
    /\ req = [c \in Conns |-> NoReq]
    /\ abandoned = [c \in Conns |-> <<>>]
    /\ delivered = [c \in Conns |-> <<>>]

\* The scans of the drain loop, the end of the connections it closed, and
\* the passing of time between two scans.
NextScan ==
    \/ \E h \in Shutdowns : ShutdownScan(h)
    \/ \E h \in Shutdowns : ShutdownPoll(h)
    \/ \E c \in Conns : ConnScanEnd(c)
    \/ \E c \in Conns : ConnUntrack(c)
    \/ \E c \in Conns : ConnStoreClosed(c)
    \/ Tick

ScanSpec == InitScan /\ [][NextScan]_vars

---------------------------------------------------------------------------
(* C18: what one scan closes *)

\* A step that is one scan of Shutdown h: the only step of these runs that
\* leaves every goroutine of a connection and every state cell as it was.
ScanStep(h) ==
    /\ shutPc[h] \in {"scan", "select"}
    /\ shutPc'[h] \in {"select", "done"}
    /\ connPc' = connPc
    /\ curState' = curState

\* Seconds elapsed since the stamp of connection c.
SinceStamp(c) == now - getState(c).unixSec

\* The connections a scan is to close: stamp not zero, and state Idle or
\* state New with more than 5 seconds elapsed since the stamp.
ToClose(c) ==
    /\ getState(c).unixSec # 0
    /\ \/ getState(c).state = StateIdle
       \/ getState(c).state = StateNew /\ SinceStamp(c) > StaleNewSecs

\* C18: in one drain scan a connection of the active set is closed and
\* removed if and only if its stamp is not zero and its state is Idle, or
\* New with more than 5 seconds elapsed since the stamp; every other
\* connection is left as it was; a connection whose stamp is zero is never
\* closed and makes the scan report not quiescent.
C18_ScanClosesClosable ==
    [][\A h \in Shutdowns :
         ScanStep(h)
         => \A c \in Conns :
              /\ (c \in activeConn /\ ToClose(c))
                 => (c \notin activeConn' /\ rwcCloses'[c] = rwcCloses[c] + 1)
              /\ ~(c \in activeConn /\ ToClose(c))
                 => ((c \in activeConn' <=> c \in activeConn) /\ rwcCloses'[c] = rwcCloses[c])
              /\ (c \in activeConn /\ getState(c).unixSec = 0)
                 => (c \in activeConn' /\ rwcCloses'[c] = 0 /\ shutPc'[h] = "select")]_vars

\* After a scan: an Idle connection closed and removed, a connection with a
\* zero stamp still in the set and the scan not quiescent.
C18_Witness ==
    \E c, d \in Conns :
        /\ shutPc[1] = "select"
        /\ getState(c).state = StateIdle
        /\ c \notin activeConn /\ rwcCloses[c] = 1
        /\ getState(d).unixSec = 0
        /\ d \in activeConn /\ rwcCloses[d] = 0

---------------------------------------------------------------------------
(* C19: the return of a drained Shutdown *)

\* The step in which Shutdown h returns an error that is not its context's.
ReturnsDrained(h) ==
    /\ shutPc[h] # "done"
    /\ shutPc'[h] = "done"
    /\ shutRet'[h] \notin CtxErrors

\* Some Shutdown has returned an error that is not its context's.
DrainedReturned ==
    \E h \in Shutdowns : shutPc[h] = "done" /\ shutRet[h] \notin CtxErrors

\* C19: Shutdown returns without a deadline error only in the step of a
\* drain scan in which every connection of the active set was to be closed,
\* was closed and was removed; the active set is empty when it returns and
\* in every later state.
C19_DrainedMeansEmpty ==
    [][/\ \A h \in Shutdowns :
            ReturnsDrained(h)
            => /\ ScanStep(h)
               /\ \A c \in activeConn :
                    ToClose(c) /\ rwcCloses'[c] = rwcCloses[c] + 1
               /\ activeConn' = {}
       /\ DrainedReturned => (DrainedReturned' /\ activeConn' = {})]_vars

\* Shutdown has returned from a quiescent scan and the drain closed both
\* connections.
C19_Witness ==
    /\ DrainedReturned
    /\ \A c \in Conns : rwcCloses[c] = 1 /\ connPc[c] # "unborn"

---------------------------------------------------------------------------
(* C20: one removal from the active set *)

\* The step of connection c that is trackConn(c, false).
Untracks(c) == connPc[c] = "untrack" /\ connPc'[c] = "storeClosed"

\* C20: a connection that has left the active set is never in it again; its
\* deregistration after the drain has already removed it changes nothing of
\* the set; and a connection whose goroutine has ended is not in the set. So
\* the set loses each connection exactly once, whichever of the drain and
\* the connection's own deregistration comes first.
C20_RemovedOnce ==
    [][\A c \in Conns :
         /\ (connPc[c] # "unborn" /\ c \notin activeConn) => c \notin activeConn'
         /\ (Untracks(c) /\ c \notin activeConn) => activeConn' = activeConn
         /\ (Untracks(c) /\ c \in activeConn) => activeConn' = activeConn \ {c}
         /\ connPc'[c] \in {"storeClosed", "exited"} => c \notin activeConn']_vars

\* A connection that the drain closed and removed has since made its own
\* deregistration and ended.
C20_Witness ==
    \E c \in Conns :
        /\ connPc[c] = "exited"
        /\ rwcCloses[c] = 1
        /\ c \notin activeConn

---------------------------------------------------------------------------
(* C21: no double close *)

\* C21: the channel of a connection has Close called on it at most once,
\* whatever the order of the drain scans of one or two Shutdown calls and of
\* the connection's own exit.
C21_ClosedAtMostOnce ==
    \A c \in Conns : rwcCloses[c] <= 1

\* Two Shutdown calls have returned, the drain closed the connection once
\* and the connection's goroutine has ended.
C21_Witness ==
    /\ \A h \in Shutdowns : shutPc[h] = "done"
    /\ \E c \in Conns : rwcCloses[c] = 1 /\ connPc[c] = "exited"

---------------------------------------------------------------------------
(* C22: the handler goroutine left behind by a timeout *)

\* Fair scheduling of the handler goroutines left behind as well.
AbandonedFairness == \A c \in Conns : WF_vars(AbandonedDone(c))

FairHandlerSpec == Init /\ [][NextLive]_vars /\ Fairness /\ AbandonedFairness

\* The handler goroutines left behind on connection c have all ended.
AbandonedEnded(c) ==
    \A i \in 1..Len(abandoned[c]) : abandoned[c][i] = "ended"

\* C22: after the dispatch has returned Cancelled on the timeout, the handler
\* goroutine left behind eventually ends.
C22_AbandonedTerminates ==
    \A c \in Conns : (abandoned[c] # <<>>) ~> AbandonedEnded(c)

---------------------------------------------------------------------------
(* C23: Shutdown returns *)

\* C23: under fair scheduling and passing time every Shutdown that was
\* called returns, whether or not its context is ever cancelled and whether
\* or not a request is in progress.
C23_ShutdownReturns ==
    \A h \in Shutdowns : (shutPc[h] # "init") ~> (shutPc[h] = "done")

\* A Shutdown whose context was never cancelled has returned while the
\* request of a connection that its drain closed is still in progress.
C23_Witness ==
    \E h \in Shutdowns, c \in Conns :
        /\ shutPc[h] = "done"
        /\ ctxErr[h] = NoError
        /\ rwcCloses[c] = 1
        /\ connPc[c] \in {"handling", "racing"}

---------------------------------------------------------------------------
(* The poll timer of the drain loop *)

\* Two Shutdown calls have closed the listener of Start 1, the second one
\* finding it closed, and are about to return from Wait; Start 1 has
\* returned; two connections accepted in the present second are blocked in
\* Scan, so that no scan is quiescent.
InitPoll ==
    /\ inShutdown = TRUE
    /\ gracePeriod \in GracePeriods
    /\ listeners = {}
    /\ listenerGroup = 0
    /\ activeConn = Conns
    /\ lnCloses = [s \in Starts |-> IF s = 1 THEN 3 ELSE 0]
    /\ startPc = [s \in Starts |-> IF s = 1 THEN "done" ELSE "init"]
    /\ startRet = [s \in Starts |-> IF s = 1 THEN ErrServerClosed ELSE NoError]
    /\ startConn = [s \in Starts |-> NoConn]
    /\ shutPc = [h \in Shutdowns |-> "wait"]
    /\ shutRet = [h \in Shutdowns |-> NoError]
    /\ lnerr = [h \in Shutdowns |-> IF h = 1 THEN NoError ELSE CloseError(1)]
    /\ ctxErr = [h \in Shutdowns |-> NoError]
    /\ drainBegun = FALSE
    /\ pollIntervalBase = [h \in Shutdowns |-> 0]
    /\ timerInterval = [h \in Shutdowns |-> 0]
    /\ connPc = [c \in Conns |-> "scan"]
    /\ curState = [c \in Conns |-> packedState(now, StateNew)]
    /\ rwcCloses = [c \in Conns |-> 0]
    /\ inbuf = [c \in Conns |-> <<>>]
    /\ sent = [c \in Conns |-> 0]
    /\ clientGone = [c \in Conns |-> FALSE]
    /\ req = [c \in Conns |-> NoReq]
    /\ abandoned = [c \in Conns |-> <<>>]
    /\ delivered = [c \in Conns |-> <<>>]

\* The steps of the Shutdown calls within the present second.
NextPoll ==
    \/ \E h \in Shutdowns : ShutdownWaitNewTimer(h)
    \/ \E h \in Shutdowns : ShutdownScan(h)
    \/ \E h \in Shutdowns : ShutdownPollReset(h)

PollSpec == InitPoll /\ [][NextPoll]_vars

---------------------------------------------------------------------------
(* C24: the poll intervals *)

\* A step in which Shutdown h arms its poll timer.
ArmsTimer(h) ==
    timerInterval'[h] # timerInterval[h] \/ pollIntervalBase'[h] # pollIntervalBase[h]

\* The base of the cycle that begins when Shutdown h arms its timer: 1 ms
\* for the first, then the base left by the cycle before.
CycleBase(h) == IF timerInterval[h] = 0 THEN Millisecond ELSE pollIntervalBase[h]

\* C24: the base of the first poll cycle is 1 ms and the base of each later
\* cycle is twice that of the cycle before, up to the maximum of 500 ms; the
\* jitter of a cycle is at least 0 and less than a tenth of the cycle's
\* base; and every interval the timer is armed with, jitter included, is at
\* most 500 ms.
C24_PollIntervals ==
    [][\A h \in Shutdowns :
         ArmsTimer(h)
         => /\ timerInterval'[h] - CycleBase(h) >= 0
            /\ (timerInterval'[h] - CycleBase(h)) * 10 < CycleBase(h)
            /\ pollIntervalBase'[h] \in {2 * CycleBase(h), shutdownPollIntervalMax}
            /\ pollIntervalBase'[h] <= shutdownPollIntervalMax
            /\ timerInterval'[h] <= shutdownPollIntervalMax]_vars

---------------------------------------------------------------------------
(* C25: the packed state cell *)

\* The pair a get returns after a set of state st at the present second.
PairSet(st) == [state |-> st, unixSec |-> now]

\* A second has passed for the cell of connection c: the same pair, one
\* second older on the time scale.
CellAged(c) ==
    /\ connPc'[c] = connPc[c]
    /\ getState(c)'.state = getState(c).state
    /\ getState(c)'.unixSec = getState(c).unixSec - 1

\* C25: unpacking the packed word of any state of {New, Idle, Closed} and
\* any stamp of the time scale gives back that state and that stamp; the
\* cell of a connection reads (New, 0) until its first set has completed;
\* and the cell changes only by the store of a set, after which a get
\* returns the state and the stamp of that one set, so that the drain scan
\* never reads a pair made of two sets.
C25_CellRoundTrips ==
    [][/\ \A t \in 0..Present, st \in {StateNew, StateIdle, StateClosed} :
            unpack(packedState(t, st)) = [state |-> st, unixSec |-> t]
       /\ \A c \in Conns :
            /\ connPc'[c] \in {"unborn", "new"}
               => getState(c)' = [state |-> StateNew, unixSec |-> 0]
            /\ curState'[c] # curState[c]
               => \/ connPc[c] = "new" /\ getState(c)' = PairSet(StateNew)
                  \/ connPc[c] = "storeClosed" /\ getState(c)' = PairSet(StateClosed)
                  \/ CellAged(c)]_vars

\* The drain has read the cell of a connection accepted more than 5 seconds
\* ago and closed it, and the connection's set of Closed has completed since.
C25_Witness ==
    \E c \in Conns :
        /\ drainBegun
        /\ rwcCloses[c] = 1
        /\ connPc[c] = "exited"
        /\ getState(c) = PairSet(StateClosed)

====
